---- MODULE Spec2Model ----
(***************************************************************************)
(* libfscp session_message: the wire codec (check_format, the raw-field   *)
(* _write) and the crypto envelope (the cleartext _write, check_signature, *)
(* get_cleartext) of src/src/session_message.cpp, as a state machine over  *)
(* one output buffer on the sending side and one received message on the   *)
(* receiving side.                                                         *)
(***************************************************************************)
EXTENDS Integers, Sequences, FiniteSets, TLC

VARIABLES
    out,     \* the caller's output buffer: [cap, header, body]
    res,     \* the last call: its operation, inputs, outcome and primitive calls
    msg,     \* the received message (the base-class view): [length, payload]
    origin,  \* how the received message was produced, and whether the channel altered it
    parsed   \* the session_message constructor's outcome on msg

vars == <<out, res, msg, origin, parsed>>

(***************************************************************************)
(* Bounds of the model.                                                    *)
(***************************************************************************)
MaxBody == 6        \* longest body of a message taken from the wire
MaxByte == 2        \* largest byte value in such a body
MaxField == 2       \* longest raw field handed to the raw-field _write
MaxCap == 20        \* largest output buffer capacity
MaxClear == 3       \* longest cleartext handed to the cleartext _write

(***************************************************************************)
(* Constants of the protocol (constants.hpp, session_message.hpp).         *)
(***************************************************************************)
HEADER_LENGTH == 4
MIN_BODY_LENGTH == 4
CURRENT_PROTOCOL_VERSION == 1
MessageTypes == {"SESSION_REQUEST", "SESSION"}

U16 == 2 ^ 16
Byte == 0 .. 255

RECURSIVE SeqsUpTo(_, _)
SeqsUpTo(S, n) ==
    IF n = 0 THEN {<<>>}
    ELSE LET shorter == SeqsUpTo(S, n - 1)
         IN  shorter \cup {Append(s, x) : s \in {t \in shorter : Len(t) = n - 1}, x \in S}

Fill(n, b) == [i \in 1 .. n |-> b] \o <<>>

(***************************************************************************)
(* buffer_tools::set<uint16_t>(buf, off, htons(static_cast<uint16_t>(v))): *)
(* the value is cut to 16 bits and stored high byte first.                 *)
(***************************************************************************)
Put16(v) == << (v % U16) \div 256, v % 256 >>

(* ntohs(buffer_tools::get<uint16_t>(payload, off)); a read that leaves the *)
(* body yields whatever lies there (havoc).                                *)
Get16(p, off, havoc) ==
    IF off + 2 <= Len(p) THEN p[off + 1] * 256 + p[off + 2] ELSE havoc

(***************************************************************************)
(* The accessors of session_message.hpp.                                   *)
(***************************************************************************)
ciphertext_size(m, havoc) == Get16(m.payload, 0, havoc)

ciphertext_signature_size(m, havoc) ==
    Get16(m.payload, 2 + ciphertext_size(m, havoc), havoc)

At(p, i, havoc) == IF i >= 1 /\ i <= Len(p) THEN p[i] ELSE havoc % 256

(* n bytes of the body from offset off on                                  *)
Range(p, off, n, havoc) ==
    IF off + n <= Len(p) THEN SubSeq(p, off + 1, off + n)
    ELSE [i \in 1 .. n |-> At(p, off + i, havoc)] \o <<>>

ciphertext(m, havoc) == Range(m.payload, 2, ciphertext_size(m, havoc), havoc)

ciphertext_signature(m, havoc) ==
    Range(m.payload, 4 + ciphertext_size(m, havoc),
          ciphertext_signature_size(m, havoc), havoc)

(***************************************************************************)
(* session_message::check_format.  reads: the body offsets it has read.    *)
(***************************************************************************)
BadLength(reads) == [ok |-> FALSE, what |-> "bad message length", reads |-> reads]

FormatOk(reads) == [ok |-> TRUE, what |-> "", reads |-> reads]

check_format_unguarded(m, havoc) ==
    LET cs == ciphertext_size(m, havoc)
        ss == ciphertext_signature_size(m, havoc)
        rd == {0, 1, 2 + cs, 3 + cs}
    IN  IF m.length # MIN_BODY_LENGTH + cs + ss THEN BadLength(rd) ELSE FormatOk(rd)

check_format_at_least(m, havoc) ==
    IF m.length < MIN_BODY_LENGTH THEN BadLength({})
    ELSE LET cs == ciphertext_size(m, havoc)
         IN  IF m.length < MIN_BODY_LENGTH + cs THEN BadLength({0, 1})
             ELSE LET ss == ciphertext_signature_size(m, havoc)
                      rd == {0, 1, 2 + cs, 3 + cs}
                  IN  IF m.length < MIN_BODY_LENGTH + cs + ss
                      THEN BadLength(rd) ELSE FormatOk(rd)

check_format(m, havoc) ==
    IF m.length < MIN_BODY_LENGTH THEN BadLength({})
    ELSE LET cs == ciphertext_size(m, havoc)
         IN  IF m.length < MIN_BODY_LENGTH + cs THEN BadLength({0, 1})
             ELSE LET ss == ciphertext_signature_size(m, havoc)
                      rd == {0, 1, 2 + cs, 3 + cs}
                  IN  IF m.length # MIN_BODY_LENGTH + cs + ss
                      THEN BadLength(rd) ELSE FormatOk(rd)

(***************************************************************************)
(* The output buffer: cap bytes, of which the first HEADER_LENGTH are the  *)
(* common header and the rest the body.                                    *)
(***************************************************************************)
FreshHeader == [version |-> 0, type |-> "none", length |-> 0]

FreshBuffer(cap) ==
    [cap |-> cap, header |-> FreshHeader,
     body |-> Fill(IF cap > HEADER_LENGTH THEN cap - HEADER_LENGTH ELSE 0, 255)]

(* memcpy(buf + off, bytes, Len(bytes)), off counted from the buffer start *)
Store(buf, off, bytes) ==
    LET at == off - HEADER_LENGTH
        room == Len(buf.body) - at
        put == IF Len(bytes) <= room THEN bytes ELSE SubSeq(bytes, 1, room)
    IN  IF room <= 0 THEN buf
        ELSE [buf EXCEPT !.body = SubSeq(@, 1, at) \o put
                                   \o SubSeq(@, at + Len(put) + 1, Len(@))]

(* message::write: stamps version, type and body length into the header    *)
MessageWrite(buf, version, type, length) ==
    [buf EXCEPT !.header = [version |-> version, type |-> type, length |-> length]]

(***************************************************************************)
(* session_message::_write (raw fields).                                   *)
(***************************************************************************)
write_fields_write_first(buf, buf_len, ct, sig, type) ==
    LET payload_len == MIN_BODY_LENGTH + Len(ct) + Len(sig)
        b1 == Store(buf, HEADER_LENGTH, Put16(Len(ct)))
    IN  IF buf_len < HEADER_LENGTH + payload_len
        THEN [status |-> "buf_len", ret |-> 0, buf |-> b1]
        ELSE [status |-> "ok", ret |-> HEADER_LENGTH + payload_len,
              buf |-> MessageWrite(
                        Store(Store(Store(b1, HEADER_LENGTH + 2, ct),
                                    HEADER_LENGTH + 2 + Len(ct), Put16(Len(sig))),
                              HEADER_LENGTH + 4 + Len(ct), sig),
                        CURRENT_PROTOCOL_VERSION, type, payload_len)]

write_fields_no_second_length(buf, buf_len, ct, sig, type) ==
    LET payload_len == MIN_BODY_LENGTH + Len(ct) + Len(sig)
    IN  IF buf_len < HEADER_LENGTH + payload_len
        THEN [status |-> "buf_len", ret |-> 0, buf |-> buf]
        ELSE [status |-> "ok", ret |-> HEADER_LENGTH + payload_len,
              buf |-> MessageWrite(
                        Store(Store(Store(buf, HEADER_LENGTH, Put16(Len(ct))),
                                    HEADER_LENGTH + 2, ct),
                              HEADER_LENGTH + 4 + Len(ct), sig),
                        CURRENT_PROTOCOL_VERSION, type, payload_len)]

write_fields(buf, buf_len, ct, sig, type) ==
    LET payload_len == MIN_BODY_LENGTH + Len(ct) + Len(sig)
    IN  IF buf_len < HEADER_LENGTH + payload_len
        THEN [status |-> "buf_len", ret |-> 0, buf |-> buf]
        ELSE [status |-> "ok", ret |-> HEADER_LENGTH + payload_len,
              buf |-> MessageWrite(
                        Store(Store(Store(Store(buf, HEADER_LENGTH, Put16(Len(ct))),
                                          HEADER_LENGTH + 2, ct),
                                    HEADER_LENGTH + 2 + Len(ct), Put16(Len(sig))),
                              HEADER_LENGTH + 4 + Len(ct), sig),
                        CURRENT_PROTOCOL_VERSION, type, payload_len)]

(***************************************************************************)
(* The crypto library (cryptoplus over OpenSSL), as the interface section  *)
(* of the specification describes it.  An RSA key pair is a size in bytes  *)
(* and a pair of inverse transforms on blocks of that size; a key handle   *)
(* holds the public half and, when priv, the private half too.             *)
(***************************************************************************)
KeyIds == {"A", "B", "C"}

Keys == [id : KeyIds, priv : BOOLEAN]

PublicOf(id) == [id |-> id, priv |-> FALSE]

PrivateOf(id) == [id |-> id, priv |-> TRUE]

rsa_size(key) == CASE key.id = "A" -> 6 [] key.id = "B" -> 5 [] OTHER -> 3

RsaExponent(key) == CASE key.id = "A" -> 7 [] key.id = "B" -> 11 [] OTHER -> 13

RawPublic(key, block) ==
    [i \in 1 .. Len(block) |-> (block[i] + RsaExponent(key)) % 256]

RawPrivate(key, block) ==
    [i \in 1 .. Len(block) |-> (block[i] + 256 - RsaExponent(key)) % 256]

(* the digest primitive: a fixed algorithm with a fixed-length output      *)
DigestLen == 1

RECURSIVE WeightedSum(_, _)
WeightedSum(s, n) == IF n = 0 THEN 0 ELSE n * s[n] + WeightedSum(s, n - 1)

Digest(s) == << (Len(s) + WeightedSum(s, Len(s))) % 251 >>

PssHash(digest, salt) == << (3 * digest[1] + 5 * salt[1] + 1) % 251 >>

(* OAEP: 0x00 | seed | label hash | zeros | 0x01 | message, then the       *)
(* public transform; the message must fit in size - 2 * DigestLen - 2.     *)
OaepCapacity(key) == rsa_size(key) - 2 * DigestLen - 2

public_encrypt(key, from, seed) ==
    IF Len(from) > OaepCapacity(key)
    THEN [ok |-> FALSE, data |-> <<>>]
    ELSE [ok |-> TRUE,
          data |-> RawPublic(key, <<0, seed, 77>>
                                  \o Fill(OaepCapacity(key) - Len(from), 0)
                                  \o <<1>> \o from)]

OaepSeparator(em) ==
    CHOOSE j \in 4 .. Len(em) + 1 :
        /\ \A i \in 4 .. j - 1 : em[i] = 0
        /\ j <= Len(em) => em[j] # 0

private_decrypt(key, buf_len, from) ==
    IF ~key.priv \/ Len(from) # rsa_size(key) \/ OaepCapacity(key) < 0
    THEN [ok |-> FALSE, data |-> <<>>]
    ELSE LET em == RawPrivate(key, from)
             j == OaepSeparator(em)
         IN  IF em[1] # 0 \/ em[3] # 77 \/ j > Len(em) \/ em[IF j > Len(em) THEN 1 ELSE j] # 1
             THEN [ok |-> FALSE, data |-> <<>>]
             ELSE IF Len(em) - j > buf_len
                  THEN [ok |-> FALSE, data |-> <<>>]
                  ELSE [ok |-> TRUE, data |-> SubSeq(em, j + 1, Len(em))]

(* PSS with the salt as long as the digest (salt length -1):               *)
(* zeros | 0x01 | salt | hash(digest, salt) | 0xbc, as long as the modulus *)
padding_add_PKCS1_PSS(key, digest, salt) ==
    IF rsa_size(key) < 2 * DigestLen + 2
    THEN [ok |-> FALSE, data |-> <<>>]
    ELSE [ok |-> TRUE,
          data |-> Fill(rsa_size(key) - 2 * DigestLen - 2, 0)
                   \o <<1>> \o salt \o PssHash(digest, salt) \o <<188>>]

verify_PKCS1_PSS(key, digest, em) ==
    LET k == rsa_size(key)
    IN  /\ Len(em) = k
        /\ k >= 2 * DigestLen + 2
        /\ em[k] = 188
        /\ \A i \in 1 .. k - 2 * DigestLen - 2 : em[i] = 0
        /\ em[k - 2 * DigestLen - 1] = 1
        /\ SubSeq(em, k - DigestLen, k - 1)
             = PssHash(digest, SubSeq(em, k - 2 * DigestLen, k - DigestLen - 1))

(* the raw (RSA_NO_PADDING) transforms act on a block of the modulus size  *)
private_encrypt(key, from) ==
    IF ~key.priv \/ Len(from) # rsa_size(key)
    THEN [ok |-> FALSE, data |-> <<>>]
    ELSE [ok |-> TRUE, data |-> RawPrivate(key, from)]

public_decrypt(key, from) ==
    IF Len(from) # rsa_size(key)
    THEN [ok |-> FALSE, data |-> <<>>]
    ELSE [ok |-> TRUE, data |-> RawPublic(key, from)]

(***************************************************************************)
(* session_message::_write (cleartext, keys).  log: the primitives called. *)
(***************************************************************************)
SealFailed(status, buf, log) ==
    [status |-> status, ret |-> 0, buf |-> buf, log |-> log, ct |-> <<>>, sig |-> <<>>]

write_cleartext_header_first(buf, buf_len, cleartext, enc_key, sig_key, type, seed, salt) ==
    LET stamped == MessageWrite(buf, CURRENT_PROTOCOL_VERSION, type, 0)
        enc == public_encrypt(enc_key, cleartext, seed)
    IN  IF ~enc.ok THEN SealFailed("encryption_failed", stamped, <<"public_encrypt">>)
        ELSE
        LET digest == Digest(enc.data)
            pad == padding_add_PKCS1_PSS(sig_key, digest, salt)
        IN  IF ~pad.ok
            THEN SealFailed("padding_failed", stamped, <<"public_encrypt", "digest",
                                                      "padding_add_PKCS1_PSS">>)
            ELSE
            LET sgn == private_encrypt(sig_key, pad.data)
            IN  IF ~sgn.ok
                THEN SealFailed("signing_failed", stamped,
                                <<"public_encrypt", "digest", "padding_add_PKCS1_PSS",
                                  "private_encrypt">>)
                ELSE
                LET w == write_fields(stamped, buf_len, enc.data, sgn.data, type)
                IN  [status |-> w.status, ret |-> w.ret, buf |-> w.buf,
                     log |-> <<"public_encrypt", "digest", "padding_add_PKCS1_PSS",
                               "private_encrypt", "_write">>,
                     ct |-> enc.data, sig |-> sgn.data]

write_cleartext(buf, buf_len, cleartext, enc_key, sig_key, type, seed, salt) ==
    LET enc == public_encrypt(enc_key, cleartext, seed)
    IN  IF ~enc.ok THEN SealFailed("encryption_failed", buf, <<"public_encrypt">>)
        ELSE
        LET digest == Digest(enc.data)
            pad == padding_add_PKCS1_PSS(sig_key, digest, salt)
        IN  IF ~pad.ok
            THEN SealFailed("padding_failed", buf, <<"public_encrypt", "digest",
                                                      "padding_add_PKCS1_PSS">>)
            ELSE
            LET sgn == private_encrypt(sig_key, pad.data)
            IN  IF ~sgn.ok
                THEN SealFailed("signing_failed", buf,
                                <<"public_encrypt", "digest", "padding_add_PKCS1_PSS",
                                  "private_encrypt">>)
                ELSE
                LET w == write_fields(buf, buf_len, enc.data, sgn.data, type)
                IN  [status |-> w.status, ret |-> w.ret, buf |-> w.buf,
                     log |-> <<"public_encrypt", "digest", "padding_add_PKCS1_PSS",
                               "private_encrypt", "_write">>,
                     ct |-> enc.data, sig |-> sgn.data]

(***************************************************************************)
(* session_message::check_signature: returns normally ("ok") or throws.    *)
(***************************************************************************)
check_signature_digest_signature(m, key, havoc) ==
    LET digest == Digest(ciphertext_signature(m, havoc))
        dec == public_decrypt(key, ciphertext_signature(m, havoc))
    IN  IF ~dec.ok
        THEN [status |-> "signature_invalid", log |-> <<"digest", "public_decrypt">>]
        ELSE [status |-> IF verify_PKCS1_PSS(key, digest, dec.data)
                         THEN "ok" ELSE "signature_invalid",
              log |-> <<"digest", "public_decrypt", "verify_PKCS1_PSS">>]

check_signature(m, key, havoc) ==
    LET digest == Digest(ciphertext(m, havoc))
        dec == public_decrypt(key, ciphertext_signature(m, havoc))
    IN  IF ~dec.ok
        THEN [status |-> "signature_invalid", log |-> <<"digest", "public_decrypt">>]
        ELSE [status |-> IF verify_PKCS1_PSS(key, digest, dec.data)
                         THEN "ok" ELSE "signature_invalid",
              log |-> <<"digest", "public_decrypt", "verify_PKCS1_PSS">>]

(***************************************************************************)
(* session_message::get_cleartext.  buf: whether the out pointer is set.   *)
(***************************************************************************)
get_cleartext_always_decrypt(m, buf, buf_len, key, havoc) ==
    LET dec == private_decrypt(key, buf_len, ciphertext(m, havoc))
    IN  IF dec.ok
        THEN [status |-> "ok", ret |-> Len(dec.data), data |-> dec.data,
              log |-> <<"private_decrypt">>]
        ELSE [status |-> "decryption_failed", ret |-> 0, data |-> <<>>,
              log |-> <<"private_decrypt">>]

get_cleartext_decrypt_signature(m, buf, buf_len, key, havoc) ==
    IF buf
    THEN LET dec == private_decrypt(key, buf_len, ciphertext_signature(m, havoc))
         IN  IF dec.ok
             THEN [status |-> "ok", ret |-> Len(dec.data), data |-> dec.data,
                   log |-> <<"private_decrypt">>]
             ELSE [status |-> "decryption_failed", ret |-> 0, data |-> <<>>,
                   log |-> <<"private_decrypt">>]
    ELSE [status |-> "ok", ret |-> rsa_size(key), data |-> <<>>, log |-> <<>>]

get_cleartext(m, buf, buf_len, key, havoc) ==
    IF buf
    THEN LET dec == private_decrypt(key, buf_len, ciphertext(m, havoc))
         IN  IF dec.ok
             THEN [status |-> "ok", ret |-> Len(dec.data), data |-> dec.data,
                   log |-> <<"private_decrypt">>]
             ELSE [status |-> "decryption_failed", ret |-> 0, data |-> <<>>,
                   log |-> <<"private_decrypt">>]
    ELSE [status |-> "ok", ret |-> rsa_size(key), data |-> <<>>, log |-> <<>>]

(***************************************************************************)
(* The state machine.  A sender fills its output buffer once, with the     *)
(* raw-field or the cleartext _write; the transport delivers what was      *)
(* written, or some message of its own; the channel may alter a sealed     *)
(* message; the receiver wraps the message (the constructor runs           *)
(* check_format) and, when that returned, calls check_signature and        *)
(* get_cleartext on it.                                                    *)
(***************************************************************************)
NoArgs == [none |-> TRUE]

NoCall == [op |-> "none", status |-> "", ret |-> 0, log |-> <<>>, args |-> NoArgs,
           data |-> <<>>]

NoMessage == [length |-> 0, payload |-> <<>>]

NotParsed == [state |-> "none", what |-> "", reads |-> {}]

Havoc == {0, 1, U16 - 1}

WireMessages == {[length |-> Len(p), payload |-> p] : p \in SeqsUpTo(0 .. MaxByte, MaxBody)}

Fields == SeqsUpTo({1, 2}, MaxField)

Cleartexts == SeqsUpTo({1, 2}, MaxClear)

Seeds == {10, 20}

Salts == {<<3>>, <<4>>}

Init ==
    /\ out \in {FreshBuffer(c) : c \in 0 .. MaxCap}
    /\ res = NoCall
    /\ msg = NoMessage
    /\ origin = [kind |-> "none", args |-> NoArgs, modified |-> FALSE]
    /\ parsed = NotParsed

Idle == res.op = "none" /\ origin.kind = "none"

EncodeFrom(F) ==
    /\ Idle
    /\ \E ct \in F, sig \in F, type \in MessageTypes :
         LET w == write_fields(out, out.cap, ct, sig, type)
         IN  /\ out' = w.buf
             /\ res' = [op |-> "encode", status |-> w.status, ret |-> w.ret, log |-> <<>>,
                        args |-> [ct |-> ct, sig |-> sig, type |-> type], data |-> <<>>]
    /\ UNCHANGED <<msg, origin, parsed>>

EncodeFields == EncodeFrom(Fields)

SealMessage ==
    /\ Idle
    /\ \E m \in Cleartexts, ek \in {PublicOf(k) : k \in KeyIds}, sk \in Keys,
          type \in MessageTypes, seed \in Seeds, salt \in Salts :
         LET w == write_cleartext(out, out.cap, m, ek, sk, type, seed, salt)
         IN  /\ out' = w.buf
             /\ res' = [op |-> "seal", status |-> w.status, ret |-> w.ret, log |-> w.log,
                        args |-> [cleartext |-> m, enc_key |-> ek, sig_key |-> sk,
                                  type |-> type, ct |-> w.ct, sig |-> w.sig],
                        data |-> <<>>]
    /\ UNCHANGED <<msg, origin, parsed>>

(* the transport hands the written bytes to the receiver, whose message    *)
(* constructor needs the header's body length to fit in them               *)
Deliver ==
    /\ res.op \in {"encode", "seal"}
    /\ res.status = "ok"
    /\ origin.kind = "none"
    /\ out.header.length <= res.ret - HEADER_LENGTH
    /\ out.header.length <= Len(out.body)
    /\ msg' = [length |-> out.header.length,
               payload |-> SubSeq(out.body, 1, out.header.length)]
    /\ origin' = [kind |-> IF res.op = "seal" THEN "sealed" ELSE "encoded",
                  args |-> res.args, modified |-> FALSE]
    /\ res' = [NoCall EXCEPT !.op = "deliver"]
    /\ UNCHANGED <<out, parsed>>

Receive ==
    /\ Idle
    /\ out.cap = 0
    /\ \E m \in WireMessages :
         /\ msg' = m
         /\ origin' = [kind |-> "wire", args |-> NoArgs, modified |-> FALSE]
    /\ res' = [NoCall EXCEPT !.op = "receive"]
    /\ UNCHANGED <<out, parsed>>

FlipBit(b, bit) == IF (b \div (2 ^ bit)) % 2 = 1 THEN b - 2 ^ bit ELSE b + 2 ^ bit

Untouched == origin.kind = "sealed" /\ parsed.state = "none" /\ ~origin.modified

(* the channel flips one bit of the ciphertext or of the signature         *)
TamperBit ==
    /\ Untouched
    /\ \E i \in 1 .. Len(msg.payload), bit \in {0, 7} :
         /\ \/ i \in 3 .. 2 + Len(origin.args.ct)
            \/ i \in 5 + Len(origin.args.ct) .. Len(msg.payload)
         /\ msg' = [msg EXCEPT !.payload[i] = FlipBit(@, bit)]
    /\ origin' = [origin EXCEPT !.modified = TRUE]
    /\ UNCHANGED <<out, res, parsed>>

(* the signature is replaced by another signature of the same ciphertext   *)
ReplaceSignature ==
    /\ Untouched
    /\ \E key \in {PrivateOf(k) : k \in KeyIds}, salt \in Salts :
         LET pad == padding_add_PKCS1_PSS(key, Digest(origin.args.ct), salt)
             sgn == private_encrypt(key, pad.data)
         IN  /\ pad.ok /\ sgn.ok
             /\ Len(sgn.data) = Len(origin.args.sig)
             /\ sgn.data # origin.args.sig
             /\ msg' = [msg EXCEPT !.payload =
                          SubSeq(@, 1, 4 + Len(origin.args.ct)) \o sgn.data]
    /\ origin' = [origin EXCEPT !.modified = TRUE]
    /\ UNCHANGED <<out, res, parsed>>

(* session_message::session_message(const message&)                        *)
Parse ==
    /\ origin.kind # "none"
    /\ parsed.state = "none"
    /\ \E havoc \in Havoc :
         LET r == check_format(msg, havoc)
         IN  parsed' = [state |-> IF r.ok THEN "ok" ELSE "rejected", what |-> r.what,
                        reads |-> r.reads]
    /\ UNCHANGED <<out, res, msg, origin>>

(* a session_message exists only when its constructor returned; the        *)
(* constructor has then bounded every offset the accessors read, so the    *)
(* value of an out-of-body read (0 here) is never used                     *)
Verify ==
    /\ parsed.state = "ok"
    /\ res.op \in {"deliver", "receive"}
    /\ \E key \in Keys :
         LET r == check_signature(msg, key, 0)
         IN  res' = [op |-> "verify", status |-> r.status, ret |-> 0, log |-> r.log,
                     args |-> [key |-> key], data |-> <<>>]
    /\ UNCHANGED <<out, msg, origin, parsed>>

Open ==
    /\ parsed.state = "ok"
    /\ res.op \in {"deliver", "receive", "verify"}
    /\ \E key \in Keys, buf \in BOOLEAN, buf_len \in {0, MaxClear} :
         LET r == get_cleartext(msg, buf, buf_len, key, 0)
         IN  res' = [op |-> "open", status |-> r.status, ret |-> r.ret, log |-> r.log,
                     args |-> [key |-> key, buf |-> buf, buf_len |-> buf_len],
                     data |-> r.data]
    /\ UNCHANGED <<out, msg, origin, parsed>>

Next ==
    \/ EncodeFields
    \/ SealMessage
    \/ Deliver
    \/ Receive
    \/ TamperBit
    \/ ReplaceSignature
    \/ Parse
    \/ Verify
    \/ Open

Spec == Init /\ [][Next]_vars

(***************************************************************************)
(* The raw-field _write at the edge of the 16-bit length fields: fields of *)
(* 0, 1, 65535 and 65536 bytes, and the capacities around their sizes.     *)
(***************************************************************************)
WideFields == Fields \cup {Fill(U16 - 1, 1), Fill(U16, 2)}

WideCaps ==
    {HEADER_LENGTH + MIN_BODY_LENGTH + n : n \in {0, 1, MaxField + 1, U16 - 1, U16, U16 + 1}}

InitWide ==
    /\ out \in {FreshBuffer(c) : c \in WideCaps}
    /\ res = NoCall
    /\ msg = NoMessage
    /\ origin = [kind |-> "none", args |-> NoArgs, modified |-> FALSE]
    /\ parsed = NotParsed

EncodeWide == EncodeFrom(WideFields)

NextWide ==
    \/ EncodeWide
    \/ Deliver
    \/ Parse

SpecWide == InitWide /\ [][NextWide]_vars

(***************************************************************************)
(* Properties.                                                             *)
(***************************************************************************)

(* p is exactly the framing of some ciphertext and signature: two bytes of *)
(* big-endian length, the ciphertext, two bytes of length, the signature   *)
Frame(c, s) == Put16(Len(c)) \o c \o Put16(Len(s)) \o s

IsFramed(p) ==
    /\ Len(p) >= MIN_BODY_LENGTH
    /\ \E n \in 0 .. Len(p) - MIN_BODY_LENGTH :
         /\ n < U16
         /\ Len(p) - MIN_BODY_LENGTH - n < U16
         /\ p = Frame(SubSeq(p, 3, 2 + n), SubSeq(p, 5 + n, Len(p)))

Chop(p) == SubSeq(p, 1, Len(p) - 1)

(* p is a framing with its last byte cut off                               *)
IsChoppedFrame(p) ==
    \E n \in 0 .. Len(p) - 3 :
        LET c == SubSeq(p, 3, 2 + n)
            s == IF Len(p) - 3 - n = 0 THEN <<>>
                 ELSE Append(SubSeq(p, 5 + n, Len(p)), 0)
        IN  n < U16 /\ Len(s) < U16 /\ p = Chop(Frame(c, s))

(* C1: the constructor accepts a message exactly when its body length is   *)
(* 4 + ciphertextLength + signatureLength, i.e. the body is the framing of *)
(* two fields; a body one byte shorter or one byte longer than a framing   *)
(* is rejected; every rejection carries the same bad-length error.         *)
C1_LengthExactness ==
    parsed.state # "none" =>
        /\ msg.length = Len(msg.payload)
        /\ parsed.state = "ok" <=> IsFramed(msg.payload)
        /\ parsed.state = "rejected" => parsed.what = "bad message length"
        /\ IsChoppedFrame(msg.payload) => parsed.state = "rejected"
        /\ (Len(msg.payload) > 0 /\ IsFramed(Chop(msg.payload)))
              => parsed.state = "rejected"

C1_Witness ==
    /\ origin.kind = "wire"
    /\ parsed.state = "rejected"
    /\ Len(msg.payload) > MIN_BODY_LENGTH + 1
    /\ IsFramed(Chop(msg.payload))
    /\ msg.payload[2] > 0

(* C2: check_format reads no offset outside the body: the ciphertext       *)
(* length field only once the body has 4 bytes, the signature length field *)
(* only once the body has 4 + ciphertextLength bytes.                      *)
C2_ReadsInsideBody ==
    parsed.state # "none" =>
        /\ \A o \in parsed.reads : o >= 0 /\ o < msg.length
        /\ parsed.reads # {} => msg.length >= MIN_BODY_LENGTH /\ {0, 1} \subseteq parsed.reads
        /\ parsed.reads \ {0, 1} # {} =>
              /\ msg.length >= MIN_BODY_LENGTH + Get16(msg.payload, 0, 0)
              /\ parsed.reads = {0, 1, 2 + Get16(msg.payload, 0, 0),
                                 3 + Get16(msg.payload, 0, 0)}
        /\ parsed.state = "ok" => parsed.reads \ {0, 1} # {}

C2_Witness ==
    /\ parsed.state = "rejected"
    /\ parsed.reads = {0, 1}
    /\ msg.length > MIN_BODY_LENGTH
    /\ msg.length < MIN_BODY_LENGTH + Get16(msg.payload, 0, 0)

(* C3: the raw-field _write fails for a ciphertext or signature longer     *)
(* than 65535 bytes and writes no length field cut to 16 bits.             *)
C3_RejectsOversizedFields ==
    (/\ res.op = "encode"
     /\ \/ Len(res.args.ct) > U16 - 1
        \/ Len(res.args.sig) > U16 - 1)
    => /\ res.status # "ok"
       /\ out = FreshBuffer(out.cap)

(* C4: the raw-field _write fails with the capacity error, leaving the     *)
(* buffer as it was, when the capacity is below header + 4 + the two field *)
(* lengths, and otherwise succeeds and returns exactly that size.          *)
RequiredSize(ct, sig) == HEADER_LENGTH + MIN_BODY_LENGTH + Len(ct) + Len(sig)

C4_CapacityCheck ==
    res.op = "encode" =>
        IF out.cap < RequiredSize(res.args.ct, res.args.sig)
        THEN res.status = "buf_len" /\ out = FreshBuffer(out.cap)
        ELSE res.status = "ok" /\ res.ret = RequiredSize(res.args.ct, res.args.sig)

C4_Witness ==
    /\ res.op = "encode"
    /\ res.status = "buf_len"
    /\ out.cap >= HEADER_LENGTH + MIN_BODY_LENGTH
    /\ out = FreshBuffer(out.cap)

(* C5: for fields of at most 65535 bytes and a buffer that holds them, the *)
(* written buffer is header, length, ciphertext, length, signature, with   *)
(* the header's body length 4 + both lengths; the receiver's constructor   *)
(* accepts it and its accessors return the two fields.                     *)
C5_CodecRoundTrip ==
    /\ (/\ res.op = "encode"
        /\ Len(res.args.ct) < U16
        /\ Len(res.args.sig) < U16
        /\ out.cap >= RequiredSize(res.args.ct, res.args.sig))
       => /\ res.status = "ok"
          /\ out.header = [version |-> CURRENT_PROTOCOL_VERSION, type |-> res.args.type,
                           length |-> MIN_BODY_LENGTH + Len(res.args.ct)
                                        + Len(res.args.sig)]
          /\ SubSeq(out.body, 1, res.ret - HEADER_LENGTH)
               = Frame(res.args.ct, res.args.sig)
    /\ (/\ origin.kind = "encoded"
        /\ Len(origin.args.ct) < U16
        /\ Len(origin.args.sig) < U16)
       => /\ msg.payload = Frame(origin.args.ct, origin.args.sig)
          /\ msg.length = MIN_BODY_LENGTH + Len(origin.args.ct) + Len(origin.args.sig)
          /\ parsed.state # "rejected"
          /\ parsed.state = "ok" =>
                /\ ciphertext(msg, 0) = origin.args.ct
                /\ ciphertext_signature(msg, 0) = origin.args.sig

C5_Witness ==
    /\ origin.kind = "encoded"
    /\ parsed.state = "ok"
    /\ Len(origin.args.ct) = 2
    /\ Len(origin.args.sig) = 1
    /\ ciphertext(msg, 0) = origin.args.ct
    /\ ciphertext_signature(msg, 0) = origin.args.sig

(***************************************************************************)
(* The sealed message and its keys, as the sender's call recorded them.    *)
(***************************************************************************)
Sealed == origin.kind = "sealed"

Unmodified == ~origin.modified

SealedSize(ek, sk) ==
    HEADER_LENGTH + 2 + rsa_size(ek) + 2 + rsa_size(sk)

(* the signing key can hold a PSS block with a digest-long salt            *)
PssFits(key) == rsa_size(key) >= 2 * DigestLen + 2

SealSucceeds ==
    /\ res.status = "ok"
    /\ res.ret = SealedSize(res.args.enc_key, res.args.sig_key)
    /\ Len(res.args.ct) = rsa_size(res.args.enc_key)
    /\ Len(res.args.sig) = rsa_size(res.args.sig_key)

OpenReturnsCleartext ==
    (/\ res.op = "open"
     /\ Sealed
     /\ Unmodified
     /\ res.args.key = PrivateOf(origin.args.enc_key.id)
     /\ res.args.buf
     /\ res.args.buf_len >= Len(origin.args.cleartext))
    => /\ res.status = "ok"
       /\ res.data = origin.args.cleartext
       /\ res.ret = Len(origin.args.cleartext)

SealedParses == (Sealed /\ Unmodified) => parsed.state # "rejected"

(* C6 as stated: for every cleartext within the OAEP capacity of the       *)
(* encryption key and every signing key, the cleartext _write succeeds     *)
(* with header + 2 + size(encKey) + 2 + size(sigKey) bytes, the message    *)
(* parses, and get_cleartext with the private counterpart returns the      *)
(* cleartext.                                                              *)
C6_AsStated ==
    /\ (/\ res.op = "seal"
        /\ Len(res.args.cleartext) <= OaepCapacity(res.args.enc_key)
        /\ res.args.sig_key.priv
        /\ out.cap >= SealedSize(res.args.enc_key, res.args.sig_key))
       => SealSucceeds
    /\ SealedParses
    /\ OpenReturnsCleartext

(* C6, amended: the same for every signing key whose modulus holds the PSS *)
(* block (at least two digest lengths plus two bytes).                     *)
C6_SealOpenRoundTrip ==
    /\ (/\ res.op = "seal"
        /\ Len(res.args.cleartext) <= OaepCapacity(res.args.enc_key)
        /\ res.args.sig_key.priv
        /\ PssFits(res.args.sig_key)
        /\ out.cap >= SealedSize(res.args.enc_key, res.args.sig_key))
       => SealSucceeds
    /\ SealedParses
    /\ OpenReturnsCleartext

C6_Witness ==
    /\ res.op = "open"
    /\ Sealed
    /\ Unmodified
    /\ res.status = "ok"
    /\ Len(res.data) = 2
    /\ res.data = origin.args.cleartext
    /\ origin.args.enc_key.id # origin.args.sig_key.id

(* the signature field is the private transform, under the key's pair, of  *)
(* a PSS padding of the digest of the ciphertext field                     *)
IsSignatureOf(sig, ct, key) ==
    \E b \in Byte :
        LET pad == padding_add_PKCS1_PSS(key, Digest(ct), <<b>>)
        IN  pad.ok /\ sig = RawPrivate(key, pad.data)

VerifyAcceptsExactlySignatures ==
    res.op = "verify" =>
        /\ res.status \in {"ok", "signature_invalid"}
        /\ res.status = "ok"
             <=> IsSignatureOf(ciphertext_signature(msg, 0), ciphertext(msg, 0),
                               res.args.key)
        /\ Len(ciphertext_signature(msg, 0)) # rsa_size(res.args.key)
             => res.status = "signature_invalid"

SealOrder ==
    <<"public_encrypt", "digest", "padding_add_PKCS1_PSS", "private_encrypt", "_write">>

C8_SealIsAllOrNothing ==
    res.op = "seal" =>
        /\ Len(res.log) <= Len(SealOrder)
        /\ res.log = SubSeq(SealOrder, 1, Len(res.log))
        /\ res.status = "ok" <=> out # FreshBuffer(out.cap)
        /\ res.status = "ok" => res.log = SealOrder
        /\ res.status # "ok" => res.ret = 0
        /\ res.status = "encryption_failed"
             <=> Len(res.args.cleartext) > OaepCapacity(res.args.enc_key)
        /\ res.status = "buf_len" =>
              /\ res.log = SealOrder
              /\ out.cap < SealedSize(res.args.enc_key, res.args.sig_key)

C8_Witness ==
    /\ res.op = "seal"
    /\ res.status = "buf_len"
    /\ out.cap > HEADER_LENGTH + MIN_BODY_LENGTH
    /\ out = FreshBuffer(out.cap)

(* C9: get_cleartext without an output buffer returns the key's size, for  *)
(* every parsed message, key and capacity, without decrypting and without  *)
(* failing; only a call with an output buffer decrypts.                    *)
C9_SizeQuery ==
    res.op = "open" =>
        /\ ~res.args.buf =>
              /\ res.status = "ok"
              /\ res.ret = rsa_size(res.args.key)
              /\ res.log = <<>>
              /\ res.data = <<>>
        /\ res.log # <<>> => res.args.buf

C9_Witness ==
    /\ res.op = "open"
    /\ ~res.args.buf
    /\ ciphertext_size(msg, 0) = 0
    /\ res.ret = rsa_size(res.args.key)

(* C10: check_signature and get_cleartext run only on a message whose      *)
(* constructor accepted it, a rejected message reaches no primitive, and   *)
(* neither call changes the message: whenever a session_message exists its *)
(* body length is 4 + ciphertextLength + signatureLength.                  *)
LengthInvariant ==
    /\ msg.length = Len(msg.payload)
    /\ msg.length >= MIN_BODY_LENGTH
    /\ msg.length = MIN_BODY_LENGTH + ciphertext_size(msg, 0)
                      + ciphertext_signature_size(msg, 0)
    /\ IsFramed(msg.payload)

C10_FormatBeforeCrypto ==
    /\ [](parsed.state = "ok" => LengthInvariant)
    /\ [](res.op \in {"verify", "open"} => parsed.state = "ok")
    /\ [][res'.op \in {"verify", "open"}
            => parsed.state = "ok" /\ msg' = msg /\ parsed' = parsed]_vars

C10_Witness ==
    /\ res.op = "open"
    /\ res.status = "decryption_failed"
    /\ origin.kind = "wire"
    /\ parsed.state = "ok"
    /\ ciphertext_size(msg, 0) > 0

====
